---- MODULE Spec2Model ----
(***************************************************************************)
(* LibgpiodSpiBitbang: a software SPI master (mode 0) over four GPIO       *)
(* lines.  The engine is single threaded; every public operation is a      *)
(* sequence of calls to the GPIO line controller (request, set-value,      *)
(* get-value).  The model follows the code call by call: one action per    *)
(* update_pins / read_miso call and per loop test, with pc the position    *)
(* in the code.  Both builds of the source are covered: apiv2 = TRUE is    *)
(* the GPIOD_APIV2 branch of every #ifdef, apiv2 = FALSE the #else branch. *)
(* A std::runtime_error that leaves a public operation ends the run of     *)
(* the engine (pc = "thrown"): nothing in the class catches it.            *)
(***************************************************************************)
EXTENDS Integers, Sequences, FiniteSets, TLC

VARIABLES
    apiv2,        \* build: GPIOD_APIV2 defined or not
    wiring,       \* what MISO is wired to: "loop" (the MOSI line) or "device"
    pc,           \* position in the code
    pin_conf,     \* constructor argument: [cs_pin, sck_pin, mosi_pin, miso_pin]
    dev,          \* constructor argument: device path, a sequence of characters
    status,       \* outcome of the constructor
    _chip,        \* TRUE once gpiod_chip_open returned a handle
    _lines,       \* line handles held: [cs, sck, mosi, miso] -> BOOLEAN
    _cs_mode,     \* SPI_CS_AUTO / SPI_CS_MANUAL
    _curr_cs,     \* cached last requested CS value
    _curr_sck,    \* cached last requested SCK value
    _curr_mosi,   \* cached last requested MOSI value
    call,         \* the public operation in progress and its arguments
    stage,        \* which spi_wr_and_rd call of the operation is running
    writecnt,     \* spi_wr_and_rd: argument
    writearr,     \* spi_wr_and_rd: argument (NULL or the bytes)
    readarr,      \* spi_wr_and_rd: argument (NULL or the buffer)
    i,            \* spi_wr_and_rd: byte index (constructor: line index)
    j,            \* spi_wr_and_rd: bit index
    wv,           \* spi_wr_and_rd: byte being shifted out
    rv,           \* spi_wr_and_rd: byte being shifted in
    rx,           \* the caller's read buffer after the operation
    ret,          \* value returned by the operation / exception thrown
    count,        \* spi_wait: attempt counter (uint32_t)
    fault,        \* what the controller gets wrong during this operation
    mbyte,        \* the byte the device shifts out in the current byte slot
    shifted,      \* the bytes the device has shifted out during this operation
    sbits,        \* what get-value returned for each bit of the current byte
    wr,           \* the set-value calls of the last step, in order
    upd,          \* the update_pins call of the last step: cache before, request
    cnt,          \* controller calls of this operation, by line and direction
    ns,           \* get-value calls of this operation
    nxfer,        \* spi_wr_and_rd calls of this operation
    xin,          \* cache, counters and read buffer as the running spi_wr_and_rd found them
    polls,        \* spi_wait: the bytes read, poll by poll
    nopen,        \* gpiod_chip_open calls
    reqs          \* line requests made: [line, val, ok]

engVars == <<_cs_mode, _curr_cs, _curr_sck, _curr_mosi>>

pinVars == <<_curr_cs, _curr_sck, _curr_mosi, cnt>>

ctorVars == <<pin_conf, dev, status, _chip, _lines, nopen, reqs>>

frameVars == <<writecnt, writearr, readarr, i, j, wv, rv>>

envVars == <<apiv2, wiring, fault>>

vars == <<apiv2, wiring, pc, pin_conf, dev, status, _chip, _lines, _cs_mode, _curr_cs,
          _curr_sck, _curr_mosi, call, stage, writecnt, writearr, readarr, i, j, wv,
          rv, rx, ret, count, fault, mbyte, shifted, sbits, wr, upd, cnt, ns, nxfer,
          xin, polls, nopen, reqs>>

-----------------------------------------------------------------------------
(* Bounds of the model *)

\* longest payload (len) handed to spi_put
MaxLen == 2
\* largest timeout handed to spi_wait
MaxTimeout == 2
\* a failing set-value is the n-th write to its line in one operation, n <= MaxFaultAt
MaxFaultAt == 2

\* the polls of spi_wait are followed for MaxPoll attempts at most
MaxPoll == MaxTimeout + 1

-----------------------------------------------------------------------------
(* Program constants *)

SPI_CS_AUTO == 0
SPI_CS_MANUAL == 1
ETIME == 62
PinLimit == 1000
ByteBits == 8
Byte == 256
\* INT_MAX (2^31 - 1)
IntMax == 2147483647
\* gpiod's error sentinel for a line read
GPIOD_LINE_VALUE_ERROR == 0 - 1

-----------------------------------------------------------------------------
(* Input values *)

CmdVals == {171}
TxVals == {1, 128}
\* bytes a device shifts out on MISO
MisoVals == {0, 165}
\* the byte a device shifts out while the controller is at fault
FaultyMiso == {165}
\* what an uninitialised stack byte may hold
StackVals == {0, 255}
\* (mask, cond) pairs for spi_wait
MaskCond == {<<1, 0>>, <<128, 128>>}

OutLines == {"cs", "sck", "mosi"}

LineNames == {"cs", "sck", "mosi", "miso"}

NoFault == [kind |-> "none", line |-> "none", n |-> 0]

\* samples whose get-value may report the error sentinel: the first and a middle
\* bit of the first byte, and the first bit of each later byte
RdFaultSlots == {1, 4} \cup {ByteBits * b + 1 : b \in 1..MaxLen}

\* what the controller does wrong during one operation: nothing, one failing
\* get-value (the n-th sample), or one failing set-value (the n-th write to a line)
Faults ==
    {NoFault}
    \cup {[kind |-> "rd", line |-> "miso", n |-> n] : n \in RdFaultSlots}
    \cup {[kind |-> "wr", line |-> l, n |-> n] : l \in OutLines, n \in 1..MaxFaultAt}

\* the faults that can show in an operation of n bytes; none on a loopback,
\* whose MISO reads the MOSI level and whose writes take effect
FaultsFor(n) ==
    IF wiring = "loop" THEN {NoFault}
    ELSE {f \in Faults : f.kind = "rd" => f.n <= ByteBits * n}

\* sequences over S of length exactly n
RECURSIVE SeqsOfLen(_, _)
SeqsOfLen(S, n) ==
    IF n = 0 THEN {<<>>}
    ELSE {Append(s, x) : s \in SeqsOfLen(S, n - 1), x \in S}

\* a pointer argument: NULL or a buffer
Null == [null |-> TRUE, buf |-> <<>>]

Ptr(b) == [null |-> FALSE, buf |-> b]

\* a field no code has assigned yet
Uninit == 0 - 1
\* a byte of a buffer that the operation has not written
Stale == 0 - 1
\* a read buffer of n bytes as it is handed in
Fresh(n) == Ptr([k \in 1..n |-> Stale])

-----------------------------------------------------------------------------
(* uint8_t arithmetic *)

Bit(b, k) == (b \div (2 ^ k)) % 2

RECURSIVE BitsToByte(_, _)
\* value of the bit function f over bit positions 0..k-1
BitsToByte(f, k) ==
    IF k = 0 THEN 0 ELSE BitsToByte(f, k - 1) + f[k - 1] * (2 ^ (k - 1))

BitAnd(a, b) == BitsToByte([k \in 0..(ByteBits - 1) |-> Bit(a, k) * Bit(b, k)], ByteBits)

\* (uint8_t)(v << 1)
Shl1(v) == (v * 2) % Byte

\* variant: the low bit is driven, wv & 0x01
MsbLow(v) == Bit(v, 0)

\* wv & 0x80 ? 1 : 0, on a uint8_t
Msb(v) == IF BitAnd(v, 128) # 0 THEN 1 ELSE 0

\* variant: the sample enters at the top, (rv >> 1) | (b << 7)
ShiftInLsb(v, b) == (v \div 2) + b * 128

\* (rv << 1) | b for a bit b: bit 0 of the shifted byte is clear, so the OR adds b
ShiftIn(v, b) == Shl1(v) + b

-----------------------------------------------------------------------------
(* Defaults of the bookkeeping *)

NoCall ==
    [name |-> "none", cmd |-> 0, tx |-> Null, rx |-> FALSE, len |-> 0,
     mask |-> 0, cond |-> 0, timeout |-> 0, rx_len |-> 0,
     pre |-> [cs |-> Uninit, sck |-> Uninit, mosi |-> Uninit, mode |-> Uninit]]

NoRet == [thrown |-> FALSE, val |-> Uninit]

NoUpd == [called |-> FALSE, old |-> <<0, 0, 0>>, req |-> <<0, 0, 0>>, ret |-> 0]

NoCnt == [rise |-> 0, fall |-> 0, csa |-> 0, csd |-> 0, mosi |-> 0, fail |-> 0]

Pre == [cs |-> _curr_cs, sck |-> _curr_sck, mosi |-> _curr_mosi, mode |-> _cs_mode]

NoXin ==
    [cs |-> Uninit, sck |-> Uninit, mosi |-> Uninit, cnt |-> NoCnt, ns |-> 0,
     readarr |-> Null]

\* what a spi_wr_and_rd call finds on entry
Found ==
    [cs |-> _curr_cs, sck |-> _curr_sck, mosi |-> _curr_mosi, cnt |-> cnt, ns |-> ns,
     readarr |-> readarr]

-----------------------------------------------------------------------------
(* Pin primitives *)

\* writes made so far to a line in this operation
Written(line) ==
    IF line = "mosi" THEN cnt.mosi
    ELSE IF line = "sck" THEN cnt.rise + cnt.fall
    ELSE cnt.csa + cnt.csd

\* gpiod_line_set_value / gpiod_line_request_set_value: the call and whether the
\* controller carried it out (it cannot without a handle)
gpiod_line_set_value(line, val) ==
    [line |-> line, val |-> val,
     ok |-> /\ _lines[line]
            /\ ~(fault.kind = "wr" /\ fault.line = line /\ fault.n = Written(line) + 1)]

\* the counters after the writes ws
Tally(ws) ==
    LET n(P(_)) == Cardinality({k \in 1..Len(ws) : P(ws[k])})
        isRise(w) == w.line = "sck" /\ w.val # 0
        isFall(w) == w.line = "sck" /\ w.val = 0
        isCsa(w) == w.line = "cs" /\ w.val = 0
        isCsd(w) == w.line = "cs" /\ w.val # 0
        isMosi(w) == w.line = "mosi"
        isFail(w) == ~w.ok
    IN  [rise |-> cnt.rise + n(isRise), fall |-> cnt.fall + n(isFall),
         csa |-> cnt.csa + n(isCsa), csd |-> cnt.csd + n(isCsd),
         mosi |-> cnt.mosi + n(isMosi), fail |-> cnt.fail + n(isFail)]

\* variant: MOSI is written on every call
update_pinsAlwaysMosi(cs, sck, mosi) ==
    /\ wr' = <<gpiod_line_set_value("mosi", mosi)>>
             \o (IF sck # _curr_sck THEN <<gpiod_line_set_value("sck", sck)>> ELSE <<>>)
             \o (IF cs # _curr_cs THEN <<gpiod_line_set_value("cs", cs)>> ELSE <<>>)
    /\ upd' = [called |-> TRUE, old |-> <<_curr_cs, _curr_sck, _curr_mosi>>,
               req |-> <<cs, sck, mosi>>, ret |-> 0]
    /\ cnt' = Tally(wr')
    /\ _curr_cs' = cs
    /\ _curr_sck' = sck
    /\ _curr_mosi' = mosi

\* variant: the cache takes a value only when its write went through
update_pinsKeepOnFail(cs, sck, mosi) ==
    LET failed(l) == \E k \in 1..Len(wr') : wr'[k].line = l /\ ~wr'[k].ok
    IN  /\ wr' = (IF mosi # _curr_mosi THEN <<gpiod_line_set_value("mosi", mosi)>> ELSE <<>>)
                 \o (IF sck # _curr_sck THEN <<gpiod_line_set_value("sck", sck)>> ELSE <<>>)
                 \o (IF cs # _curr_cs THEN <<gpiod_line_set_value("cs", cs)>> ELSE <<>>)
        /\ upd' = [called |-> TRUE, old |-> <<_curr_cs, _curr_sck, _curr_mosi>>,
                   req |-> <<cs, sck, mosi>>, ret |-> 0]
        /\ cnt' = Tally(wr')
        /\ _curr_cs' = IF failed("cs") THEN _curr_cs ELSE cs
        /\ _curr_sck' = IF failed("sck") THEN _curr_sck ELSE sck
        /\ _curr_mosi' = IF failed("mosi") THEN _curr_mosi ELSE mosi

\* update_pins: MOSI, then SCK, then CS, each written only when the request
\* differs from the cache; the cache takes the request whatever the writes did;
\* return 0
update_pins(cs, sck, mosi) ==
    /\ wr' = (IF mosi # _curr_mosi THEN <<gpiod_line_set_value("mosi", mosi)>> ELSE <<>>)
             \o (IF sck # _curr_sck THEN <<gpiod_line_set_value("sck", sck)>> ELSE <<>>)
             \o (IF cs # _curr_cs THEN <<gpiod_line_set_value("cs", cs)>> ELSE <<>>)
    /\ upd' = [called |-> TRUE, old |-> <<_curr_cs, _curr_sck, _curr_mosi>>,
               req |-> <<cs, sck, mosi>>, ret |-> 0]
    /\ cnt' = Tally(wr')
    /\ _curr_cs' = cs
    /\ _curr_sck' = sck
    /\ _curr_mosi' = mosi

\* a step that calls no update_pins
NoPins ==
    /\ wr' = <<>>
    /\ upd' = NoUpd
    /\ UNCHANGED pinVars

setCs == update_pins(1, _curr_sck, _curr_mosi)

clearCs == update_pins(0, _curr_sck, _curr_mosi)

\* gpiod_line_get_value / gpiod_line_request_get_value on MISO: the error
\* sentinel, or the level of the line (the MOSI level on a loopback, else the
\* device's bit for this slot, most significant first)
gpiod_line_get_value ==
    IF fault.kind = "rd" /\ fault.n = ns + 1 THEN GPIOD_LINE_VALUE_ERROR
    ELSE IF wiring = "loop" THEN _curr_mosi
    ELSE Bit(mbyte, (ByteBits - 1) - j)

\* read_miso on the controller's answer req: GPIOD_APIV2 throws on the error
\* sentinel and maps ACTIVE to 1; the other build returns req as it is
read_miso(req) ==
    IF apiv2
    THEN [thrown |-> req = GPIOD_LINE_VALUE_ERROR, val |-> IF req = 1 THEN 1 ELSE 0]
    ELSE [thrown |-> FALSE, val |-> req]

-----------------------------------------------------------------------------
(* spi_wr_and_rd, step by step *)

\* where spi_wr_and_rd returns to
After(st) ==
    IF st = "put" THEN "put_ret"
    ELSE IF st = "putcmd" THEN "putcmd_ret"
    ELSE IF st = "cmd" THEN "wait_do"
    ELSE IF st = "wtr_wr" THEN "wtr_mid"
    ELSE IF st = "wtr_rd" THEN "wtr_end"
    ELSE "wait_check"

\* the call: arguments and locals, the device silent so far in this call
Enter(st, n, w, r) ==
    /\ stage' = st
    /\ writecnt' = n
    /\ writearr' = w
    /\ readarr' = r
    /\ i' = 0
    /\ j' = 0
    /\ wv' = 0
    /\ rv' = 0
    /\ nxfer' = nxfer + 1
    /\ xin' = xin
    /\ pc' = "xfer_begin"

\* variant: CS is not asserted
XferBeginNoCs ==
    /\ pc = "xfer_begin"
    /\ xin' = Found
    /\ NoPins
    /\ pc' = "byte"
    /\ UNCHANGED <<envVars, ctorVars, _cs_mode, call, stage, frameVars, rx, ret, count,
                   mbyte, shifted, sbits, ns, nxfer, polls>>

\* if (_cs_mode == SPI_CS_AUTO) clearCs();
XferBegin ==
    /\ pc = "xfer_begin"
    /\ xin' = Found
    /\ IF _cs_mode = SPI_CS_AUTO THEN clearCs ELSE NoPins
    /\ pc' = "byte"
    /\ UNCHANGED <<envVars, ctorVars, _cs_mode, call, stage, frameVars, rx, ret, count,
                   mbyte, shifted, sbits, ns, nxfer, polls>>

\* variant: the loop test is i <= writecnt, one byte more is clocked
ByteBeginOneMore ==
    /\ pc = "byte"
    /\ NoPins
    /\ IF i <= writecnt
       THEN /\ wv' = IF ~writearr.null /\ i < Len(writearr.buf) THEN writearr.buf[i + 1] ELSE 0
            /\ rv' = 0
            /\ j' = 0
            /\ sbits' = <<>>
            /\ pc' = "setup"
            /\ IF wiring = "loop"
               THEN UNCHANGED <<mbyte, shifted>>
               ELSE \E b \in (IF fault = NoFault THEN MisoVals ELSE FaultyMiso) :
                       /\ mbyte' = b
                       /\ shifted' = Append(shifted, b)
       ELSE /\ pc' = "xfer_end"
            /\ UNCHANGED <<wv, rv, j, sbits, mbyte, shifted>>
    /\ UNCHANGED <<envVars, ctorVars, _cs_mode, call, stage, writecnt, writearr, readarr,
                   i, rx, ret, count, ns, nxfer, xin, polls>>

\* for (i < writecnt): wv = wp ? *wp++ : 0; rv = 0; the device puts up its next byte
ByteBegin ==
    /\ pc = "byte"
    /\ NoPins
    /\ IF i < writecnt
       THEN /\ wv' = IF ~writearr.null THEN writearr.buf[i + 1] ELSE 0
            /\ rv' = 0
            /\ j' = 0
            /\ sbits' = <<>>
            /\ pc' = "setup"
            /\ IF wiring = "loop"
               THEN UNCHANGED <<mbyte, shifted>>
               ELSE \E b \in (IF fault = NoFault THEN MisoVals ELSE FaultyMiso) :
                       /\ mbyte' = b
                       /\ shifted' = Append(shifted, b)
       ELSE /\ pc' = "xfer_end"
            /\ UNCHANGED <<wv, rv, j, sbits, mbyte, shifted>>
    /\ UNCHANGED <<envVars, ctorVars, _cs_mode, call, stage, writecnt, writearr, readarr,
                   i, rx, ret, count, ns, nxfer, xin, polls>>

\* variant: MOSI is set and SCK raised in one call
BitSetupClockHigh ==
    /\ pc = "setup"
    /\ update_pins(_curr_cs, 1, Msb(wv))
    /\ wv' = Shl1(wv)
    /\ pc' = "rise"
    /\ UNCHANGED <<envVars, ctorVars, _cs_mode, call, stage, writecnt, writearr, readarr,
                   i, j, rv, rx, ret, count, mbyte, shifted, sbits, ns, nxfer, xin, polls>>

\* update_pins(_curr_cs, 0, wv & 0x80 ? 1 : 0); wv <<= 1;
BitSetup ==
    /\ pc = "setup"
    /\ update_pins(_curr_cs, 0, Msb(wv))
    /\ wv' = Shl1(wv)
    /\ pc' = "rise"
    /\ UNCHANGED <<envVars, ctorVars, _cs_mode, call, stage, writecnt, writearr, readarr,
                   i, j, rv, rx, ret, count, mbyte, shifted, sbits, ns, nxfer, xin, polls>>

\* update_pins(_curr_cs, 1, _curr_mosi);
BitRise ==
    /\ pc = "rise"
    /\ update_pins(_curr_cs, 1, _curr_mosi)
    /\ pc' = "sample"
    /\ UNCHANGED <<envVars, ctorVars, _cs_mode, call, stage, frameVars, rx, ret, count,
                   mbyte, shifted, sbits, ns, nxfer, xin, polls>>

\* rv = (rv << 1) | (read_miso() ? 1 : 0); an exception leaves the operation
BitSample ==
    /\ pc = "sample"
    /\ NoPins
    /\ LET req == gpiod_line_get_value
           m == read_miso(req)
       IN  /\ ns' = ns + 1
           /\ sbits' = Append(sbits, req)
           /\ IF m.thrown
              THEN /\ pc' = "thrown"
                   /\ ret' = [thrown |-> TRUE, val |-> Uninit]
                   /\ rx' = IF stage \in {"put", "wtr_rd"} THEN readarr
                            ELSE IF stage = "putcmd" /\ call.rx THEN Fresh(call.len)
                            ELSE rx
                   /\ rv' = rv
              ELSE /\ pc' = "fall"
                   /\ rv' = ShiftIn(rv, IF m.val # 0 THEN 1 ELSE 0)
                   /\ UNCHANGED <<ret, rx>>
    /\ UNCHANGED <<envVars, ctorVars, _cs_mode, call, stage, writecnt, writearr, readarr,
                   i, j, wv, count, mbyte, shifted, nxfer, xin, polls>>

\* variant: SCK is not driven low at the end of the slot
BitFallNone ==
    /\ pc = "fall"
    /\ NoPins
    /\ j' = j + 1
    /\ pc' = IF j + 1 < ByteBits THEN "setup" ELSE "store"
    /\ UNCHANGED <<envVars, ctorVars, _cs_mode, call, stage, writecnt, writearr, readarr,
                   i, wv, rv, rx, ret, count, mbyte, shifted, sbits, ns, nxfer, xin, polls>>

\* update_pins(_curr_cs, 0, _curr_mosi); j++
BitFall ==
    /\ pc = "fall"
    /\ update_pins(_curr_cs, 0, _curr_mosi)
    /\ j' = j + 1
    /\ pc' = IF j + 1 < ByteBits THEN "setup" ELSE "store"
    /\ UNCHANGED <<envVars, ctorVars, _cs_mode, call, stage, writecnt, writearr, readarr,
                   i, wv, rv, rx, ret, count, mbyte, shifted, sbits, ns, nxfer, xin, polls>>

\* if (rp) *rp++ = rv; i++
ByteStore ==
    /\ pc = "store"
    /\ NoPins
    /\ readarr' = IF ~readarr.null THEN [readarr EXCEPT !.buf[i + 1] = rv] ELSE readarr
    /\ i' = i + 1
    /\ pc' = "byte"
    /\ UNCHANGED <<envVars, ctorVars, _cs_mode, call, stage, writecnt, writearr, j, wv,
                   rv, rx, ret, count, mbyte, shifted, sbits, ns, nxfer, xin, polls>>

\* variant: CS is released whatever the mode
XferEndAnyMode ==
    /\ pc = "xfer_end"
    /\ setCs
    /\ pc' = After(stage)
    /\ UNCHANGED <<envVars, ctorVars, _cs_mode, call, stage, frameVars, rx, ret, count,
                   mbyte, shifted, sbits, ns, nxfer, xin, polls>>

\* if (_cs_mode == SPI_CS_AUTO) setCs(); return 0;
XferEnd ==
    /\ pc = "xfer_end"
    /\ IF _cs_mode = SPI_CS_AUTO THEN setCs ELSE NoPins
    /\ pc' = After(stage)
    /\ UNCHANGED <<envVars, ctorVars, _cs_mode, call, stage, frameVars, rx, ret, count,
                   mbyte, shifted, sbits, ns, nxfer, xin, polls>>

-----------------------------------------------------------------------------
(* Public operations *)

\* the operation starts: its arguments, the controller's fault, fresh counters
Begin(name, cmd, tx, hasRx, len, mask, cond, timeout, rx_len, f) ==
    /\ call' = [name |-> name, cmd |-> cmd, tx |-> tx, rx |-> hasRx, len |-> len,
                mask |-> mask, cond |-> cond, timeout |-> timeout, rx_len |-> rx_len,
                pre |-> Pre]
    /\ fault' = f
    /\ ret' = NoRet
    /\ ns' = 0
    /\ shifted' = <<>>
    /\ sbits' = <<>>
    /\ mbyte' = 0
    /\ polls' = <<>>
    /\ count' = 0

\* spi_put(uint8_t *tx, uint8_t *rx, uint32_t len): return spi_wr_and_rd(len, tx, rx);
PutRaw ==
    /\ pc = "idle"
    /\ \E len \in 0..MaxLen, hasRx \in BOOLEAN, f \in FaultsFor(MaxLen) :
       \E tx \in {Null} \cup {Ptr(b) : b \in SeqsOfLen(TxVals, len)} :
          /\ f.kind = "rd" => f.n <= ByteBits * len
          /\ Begin("spi_put", 0, tx, hasRx, len, 0, 0, 0, 0, f)
          /\ Enter("put", len, tx, IF hasRx THEN Fresh(len) ELSE Null)
          /\ rx' = IF hasRx THEN Fresh(len) ELSE Null
    /\ NoPins
    /\ UNCHANGED <<apiv2, wiring, ctorVars, _cs_mode>>

PutRawRet ==
    /\ pc = "put_ret"
    /\ NoPins
    /\ rx' = readarr
    /\ ret' = [thrown |-> FALSE, val |-> 0]
    /\ pc' = "returned"
    /\ UNCHANGED <<envVars, ctorVars, _cs_mode, call, stage, frameVars, count, mbyte,
                   shifted, sbits, ns, nxfer, xin, polls>>

\* the buffer jtx of spi_put(cmd, ...): the command, then the payload, or, with
\* tx NULL, whatever the stack holds
Jtx(cmd, tx, len) ==
    IF tx.null THEN {<<cmd>> \o junk : junk \in SeqsOfLen(StackVals, len)}
    ELSE {<<cmd>> \o SubSeq(tx.buf, 1, len)}

\* spi_put(uint8_t cmd, uint8_t *tx, uint8_t *rx, uint32_t len) up to the call
\* spi_wr_and_rd(xfer_len, jtx, (rx != NULL) ? jrx : NULL)
PutCmd ==
    /\ pc = "idle"
    /\ \E cmd \in CmdVals, len \in 0..MaxLen, hasRx \in BOOLEAN, f \in FaultsFor(MaxLen + 1) :
       \E tx \in {Null} \cup {Ptr(b) : b \in SeqsOfLen(TxVals, len)} :
       \E jtx \in Jtx(cmd, tx, len) :
          LET xfer_len == len + 1
          IN  /\ f.kind = "rd" => f.n <= ByteBits * xfer_len
              /\ Begin("spi_put_cmd", cmd, tx, hasRx, len, 0, 0, 0, 0, f)
              /\ Enter("putcmd", xfer_len, Ptr(jtx), IF hasRx THEN Fresh(xfer_len) ELSE Null)
              /\ rx' = IF hasRx THEN Fresh(len) ELSE Null
    /\ NoPins
    /\ UNCHANGED <<apiv2, wiring, ctorVars, _cs_mode>>

\* variant: the copy starts at jrx, the byte of the command slot
PutCmdRetNoSkip ==
    /\ pc = "putcmd_ret"
    /\ NoPins
    /\ rx' = IF call.rx THEN Ptr(SubSeq(readarr.buf, 1, call.len)) ELSE rx
    /\ ret' = [thrown |-> FALSE, val |-> 0]
    /\ pc' = "returned"
    /\ UNCHANGED <<envVars, ctorVars, _cs_mode, call, stage, frameVars, count, mbyte,
                   shifted, sbits, ns, nxfer, xin, polls>>

\* if (rx != NULL) memcpy(rx, jrx+1, len); return 0;
PutCmdRet ==
    /\ pc = "putcmd_ret"
    /\ NoPins
    /\ rx' = IF call.rx THEN Ptr(SubSeq(readarr.buf, 2, call.len + 1)) ELSE rx
    /\ ret' = [thrown |-> FALSE, val |-> 0]
    /\ pc' = "returned"
    /\ UNCHANGED <<envVars, ctorVars, _cs_mode, call, stage, frameVars, count, mbyte,
                   shifted, sbits, ns, nxfer, xin, polls>>

\* spi_wait: setCSmode(SPI_CS_MANUAL); clearCs(); then the call
\* spi_wr_and_rd(1, &cmd, NULL)
WaitBegin ==
    /\ pc = "idle"
    /\ \E cmd \in CmdVals, mc \in MaskCond, timeout \in 0..MaxTimeout,
          f \in FaultsFor(1 + MaxPoll) :
          /\ Begin("spi_wait", cmd, Null, FALSE, 0, mc[1], mc[2], timeout, 0, f)
          /\ Enter("cmd", 1, Ptr(<<cmd>>), Null)
    /\ _cs_mode' = SPI_CS_MANUAL
    /\ clearCs
    /\ rx' = Null
    /\ UNCHANGED <<apiv2, wiring, ctorVars>>

\* do { spi_wr_and_rd(1, NULL, &rx);  -- the call.  count is a uint32_t; the
\* passes followed here (MaxPoll) are far from its wrap-around.
WaitDo ==
    /\ pc = "wait_do"
    /\ count < MaxPoll
    /\ NoPins
    /\ Enter("poll", 1, Null, Fresh(1))
    /\ UNCHANGED <<envVars, ctorVars, _cs_mode, call, rx, ret, count, mbyte, shifted,
                   sbits, ns, polls>>

\* variant: the loop is left one pass late, if (count > timeout) break
WaitCheckLate ==
    /\ pc = "wait_check"
    /\ NoPins
    /\ LET byte == readarr.buf[1]
       IN  /\ count' = count + 1
           /\ polls' = Append(polls, byte)
           /\ pc' = IF count + 1 > call.timeout THEN "wait_end"
                    ELSE IF BitAnd(byte, call.mask) # call.cond THEN "wait_do"
                    ELSE "wait_end"
    /\ UNCHANGED <<envVars, ctorVars, _cs_mode, call, stage, frameVars, rx, ret, mbyte,
                   shifted, sbits, ns, nxfer, xin>>

\* count++; if (count == timeout) break; } while ((rx & mask) != cond);
WaitCheck ==
    /\ pc = "wait_check"
    /\ NoPins
    /\ LET byte == readarr.buf[1]
       IN  /\ count' = count + 1
           /\ polls' = Append(polls, byte)
           /\ pc' = IF count + 1 = call.timeout THEN "wait_end"
                    ELSE IF BitAnd(byte, call.mask) # call.cond THEN "wait_do"
                    ELSE "wait_end"
    /\ UNCHANGED <<envVars, ctorVars, _cs_mode, call, stage, frameVars, rx, ret, mbyte,
                   shifted, sbits, ns, nxfer, xin>>

\* setCs(); setCSmode(SPI_CS_AUTO); return count == timeout ? -ETIME : 0;
WaitEnd ==
    /\ pc = "wait_end"
    /\ setCs
    /\ _cs_mode' = SPI_CS_AUTO
    /\ ret' = [thrown |-> FALSE, val |-> IF count = call.timeout THEN 0 - ETIME ELSE 0]
    /\ pc' = "returned"
    /\ UNCHANGED <<envVars, ctorVars, call, stage, frameVars, rx, count, mbyte, shifted,
                   sbits, ns, nxfer, xin, polls>>

\* spi_wr_then_rd (private; taken here as an entry of its own):
\* setCSmode(SPI_CS_MANUAL); clearCs(); then the call
\* spi_wr_and_rd(tx_len, tx_data, NULL)
WtrBegin ==
    /\ pc = "idle"
    /\ \E tx_len \in 0..MaxLen, rx_len \in 0..MaxLen, f \in FaultsFor(2 * MaxLen) :
       \E tx \in {Ptr(b) : b \in SeqsOfLen(TxVals, tx_len)} :
          /\ f.kind = "rd" => f.n <= ByteBits * (tx_len + rx_len)
          /\ Begin("spi_wr_then_rd", 0, tx, TRUE, tx_len, 0, 0, 0, rx_len, f)
          /\ Enter("wtr_wr", tx_len, tx, Null)
          /\ rx' = Fresh(rx_len)
    /\ _cs_mode' = SPI_CS_MANUAL
    /\ clearCs
    /\ UNCHANGED <<apiv2, wiring, ctorVars>>

\* ret = spi_wr_and_rd(...), 0 whenever it returns (return 0 is its only return);
\* so the else branch: the call spi_wr_and_rd(rx_len, NULL, rx_data)
WtrMid ==
    /\ pc = "wtr_mid"
    /\ NoPins
    /\ Enter("wtr_rd", call.rx_len, Null, rx)
    /\ UNCHANGED <<envVars, ctorVars, _cs_mode, call, rx, ret, count, mbyte, shifted,
                   sbits, ns, polls>>

\* setCs(); setCSmode(SPI_CS_AUTO); return ret;
WtrEnd ==
    /\ pc = "wtr_end"
    /\ setCs
    /\ _cs_mode' = SPI_CS_AUTO
    /\ rx' = readarr
    /\ ret' = [thrown |-> FALSE, val |-> 0]
    /\ pc' = "returned"
    /\ UNCHANGED <<envVars, ctorVars, call, stage, frameVars, count, mbyte, shifted,
                   sbits, ns, nxfer, xin, polls>>

\* the caller takes the result; the engine is idle again
Return ==
    /\ pc = "returned"
    /\ pc' = "idle"
    /\ call' = NoCall
    /\ stage' = "none"
    /\ writecnt' = 0
    /\ writearr' = Null
    /\ readarr' = Null
    /\ i' = 0
    /\ j' = 0
    /\ wv' = 0
    /\ rv' = 0
    /\ rx' = Null
    /\ ret' = NoRet
    /\ count' = 0
    /\ fault' = NoFault
    /\ mbyte' = 0
    /\ shifted' = <<>>
    /\ sbits' = <<>>
    /\ wr' = <<>>
    /\ upd' = NoUpd
    /\ cnt' = NoCnt
    /\ ns' = 0
    /\ nxfer' = 0
    /\ xin' = NoXin
    /\ polls' = <<>>
    /\ UNCHANGED <<apiv2, wiring, ctorVars, engVars>>

-----------------------------------------------------------------------------
(* Construction *)

GpioChipPrefix == <<"/", "d", "e", "v", "/", "g", "p", "i", "o", "c", "h", "i", "p">>

DefaultChip == GpioChipPrefix \o <<"0">>

\* device paths handed to the constructor: empty, chip 0, chip 12, the bare
\* prefix (13 characters), and a path of 14 characters that is no gpiochip
DevPaths ==
    {<<>>, DefaultChip, GpioChipPrefix \o <<"1", "2">>, GpioChipPrefix,
     <<"/", "d", "e", "v", "/", "s", "p", "i", "d", "e", "v", "0", ".", "0">>}

PinVals == {0 - 1, 0, 1, 2, 999, 1000}

PinConfs == [cs_pin : PinVals, sck_pin : PinVals, mosi_pin : PinVals, miso_pin : PinVals]

\* the lines in the order the constructor requests them
AllLines == <<"cs", "sck", "mosi", "miso">>

NoLines == [l \in LineNames |-> FALSE]

\* the pins as the constructor's pins[] holds them: unsigned int under
\* GPIOD_APIV2, int otherwise.  A negative int converts to 2^32 + p; the model
\* keeps it at 2^31 + p, which is as far out of the pin range and as distinct.
PinsArray(conf) ==
    LET conv(p) == IF apiv2 /\ p < 0 THEN (IntMax + p) + 1 ELSE p
    IN  <<conv(conf.cs_pin), conv(conf.sck_pin), conv(conf.mosi_pin), conv(conf.miso_pin)>>

\* variant: the range test alone, duplicates pass
ValidatePinsRangeOnly(pins, k) ==
    IF \E m \in k..Len(pins) : pins[m] < 0 \/ pins[m] >= PinLimit THEN "out_of_range"
    ELSE "ok"

\* the validation loops, from index k on (1-based): the first failing test decides
RECURSIVE ValidatePins(_, _)
ValidatePins(pins, k) ==
    IF k > Len(pins) THEN "ok"
    ELSE IF pins[k] < 0 \/ pins[k] >= PinLimit THEN "out_of_range"
    ELSE IF \E m \in (k + 1)..Len(pins) : pins[k] = pins[m] THEN "duplicate"
    ELSE ValidatePins(pins, k + 1)

\* chip_dev after the default is applied
ChipDev(d) == IF Len(d) = 0 THEN DefaultChip ELSE d

\* !(chip_dev.length() < 14 || chip_dev.substr(0, 13) != "/dev/gpiochip")
ValidChipDev(chip_dev) ==
    ~(Len(chip_dev) < 14 \/ SubSeq(chip_dev, 1, 13) # GpioChipPrefix)

\* the constructor throws: no engine
CtorThrow(st) ==
    /\ status' = st
    /\ pc' = "failed"
    /\ ret' = [thrown |-> TRUE, val |-> Uninit]

\* the path check and the pin validation
CtorValidate ==
    /\ pc = "new"
    /\ IF ~ValidChipDev(ChipDev(dev)) THEN CtorThrow("invalid_chip")
       ELSE IF ValidatePins(PinsArray(pin_conf), 1) # "ok"
       THEN CtorThrow(ValidatePins(PinsArray(pin_conf), 1))
       ELSE /\ pc' = "ctor_open"
            /\ UNCHANGED <<status, ret>>
    /\ NoPins
    /\ UNCHANGED <<envVars, pin_conf, dev, _chip, _lines, nopen, reqs, _cs_mode, call,
                   stage, frameVars, rx, count, mbyte, shifted, sbits, ns, nxfer, xin, polls>>

\* _chip = gpiod_chip_open(chip_dev.c_str()); if (!_chip) throw
CtorOpen ==
    /\ pc = "ctor_open"
    /\ nopen' = nopen + 1
    /\ \E ok \in BOOLEAN :
          /\ _chip' = ok
          /\ IF ok
             THEN /\ pc' = "ctor_req"
                  /\ i' = 1
                  /\ UNCHANGED <<status, ret>>
             ELSE /\ CtorThrow("open_failed")
                  /\ i' = i
    /\ NoPins
    /\ UNCHANGED <<envVars, pin_conf, dev, _lines, reqs, _cs_mode, call, stage, writecnt,
                   writearr, readarr, j, wv, rv, rx, count, mbyte, shifted, sbits, ns,
                   nxfer, xin, polls>>

\* the initial output value a line is requested with: get_line's val, or the
\* default (inactive) of the GPIOD_APIV2 line settings
RequestVal(line) == IF ~apiv2 /\ line = "cs" THEN 1 ELSE 0

\* the request of line i: get_line throws when the line is not found or the
\* request is refused; GPIOD_APIV2 stores what gpiod_chip_request_lines returned
CtorRequest ==
    /\ pc = "ctor_req"
    /\ \E g \in {"ok", "noline", "reqfail"} :
          LET line == AllLines[i]
              ok == (g = "ok")
          IN  /\ reqs' = Append(reqs, [line |-> line, val |-> RequestVal(line), ok |-> ok])
              /\ IF ~apiv2 /\ ~ok
                 THEN /\ CtorThrow("line_failed")
                      /\ UNCHANGED <<_lines, i>>
                 ELSE /\ _lines' = [_lines EXCEPT ![line] = ok]
                      /\ i' = i + 1
                      /\ pc' = IF i = Len(AllLines) THEN "ctor_prime" ELSE "ctor_req"
                      /\ UNCHANGED <<status, ret>>
    /\ NoPins
    /\ UNCHANGED <<envVars, pin_conf, dev, _chip, nopen, _cs_mode, call, stage, writecnt,
                   writearr, readarr, j, wv, rv, rx, count, mbyte, shifted, sbits, ns,
                   nxfer, xin, polls>>

\* variant: the cache starts at the idle levels, so update_pins writes nothing
CtorPrimeIdle ==
    /\ pc = "ctor_prime"
    /\ _curr_cs' = 1
    /\ _curr_sck' = 0
    /\ _curr_mosi' = 0
    /\ fault' \in {f \in Faults : f.kind # "rd" /\ f.n <= 1}
    /\ pc' = "ctor_drive"
    /\ UNCHANGED <<apiv2, wiring, ctorVars, _cs_mode, call, stage, frameVars, rx, ret,
                   count, mbyte, shifted, sbits, wr, upd, cnt, ns, nxfer, xin, polls>>

\* _curr_cs = 0; _curr_sck = 1; _curr_mosi = 1;
CtorPrime ==
    /\ pc = "ctor_prime"
    /\ _curr_cs' = 0
    /\ _curr_sck' = 1
    /\ _curr_mosi' = 1
    /\ fault' \in {f \in Faults : f.kind # "rd" /\ f.n <= 1}
    /\ pc' = "ctor_drive"
    /\ UNCHANGED <<apiv2, wiring, ctorVars, _cs_mode, call, stage, frameVars, rx, ret,
                   count, mbyte, shifted, sbits, wr, upd, cnt, ns, nxfer, xin, polls>>

\* variant: SCK and MOSI are left high, update_pins(1, 1, 1)
CtorDriveHigh ==
    /\ pc = "ctor_drive"
    /\ update_pins(1, 1, 1)
    /\ _cs_mode' = SPI_CS_AUTO
    /\ status' = "ok"
    /\ pc' = "idle"
    /\ UNCHANGED <<envVars, pin_conf, dev, _chip, _lines, nopen, reqs, call, stage,
                   frameVars, rx, ret, count, mbyte, shifted, sbits, ns, nxfer, xin, polls>>

\* update_pins(1, 0, 0); _cs_mode = SPI_CS_AUTO;
CtorDrive ==
    /\ pc = "ctor_drive"
    /\ update_pins(1, 0, 0)
    /\ _cs_mode' = SPI_CS_AUTO
    /\ status' = "ok"
    /\ pc' = "idle"
    /\ UNCHANGED <<envVars, pin_conf, dev, _chip, _lines, nopen, reqs, call, stage,
                   frameVars, rx, ret, count, mbyte, shifted, sbits, ns, nxfer, xin, polls>>

-----------------------------------------------------------------------------
(* Specifications *)

Quiet ==
    /\ call = NoCall
    /\ stage = "none"
    /\ writecnt = 0
    /\ writearr = Null
    /\ readarr = Null
    /\ i = 0
    /\ j = 0
    /\ wv = 0
    /\ rv = 0
    /\ rx = Null
    /\ ret = NoRet
    /\ count = 0
    /\ fault = NoFault
    /\ mbyte = 0
    /\ shifted = <<>>
    /\ sbits = <<>>
    /\ wr = <<>>
    /\ upd = NoUpd
    /\ cnt = NoCnt
    /\ ns = 0
    /\ nxfer = 0
    /\ xin = NoXin
    /\ polls = <<>>

ScenarioPins == [cs_pin |-> 0, sck_pin |-> 1, mosi_pin |-> 2, miso_pin |-> 3]

\* the engine as a successful construction leaves it, before any transfer:
\* update_pins(1, 0, 0) has set the cache, the mode is AUTO
Init ==
    /\ apiv2 \in BOOLEAN
    /\ wiring \in {"loop", "device"}
    /\ pin_conf = ScenarioPins
    /\ dev = DefaultChip
    /\ status = "ok"
    /\ _chip = TRUE
    /\ _lines = [l \in LineNames |-> TRUE]
    /\ _cs_mode = SPI_CS_AUTO
    /\ _curr_cs = 1
    /\ _curr_sck = 0
    /\ _curr_mosi = 0
    /\ nopen = 0
    /\ reqs = <<>>
    /\ pc = "idle"
    /\ Quiet

Next ==
    \/ PutRaw \/ PutRawRet \/ PutCmd \/ PutCmdRet
    \/ WaitBegin \/ WaitDo \/ WaitCheck \/ WaitEnd
    \/ WtrBegin \/ WtrMid \/ WtrEnd
    \/ XferBegin \/ ByteBegin \/ BitSetup \/ BitRise \/ BitSample \/ BitFall
    \/ ByteStore \/ XferEnd
    \/ Return

Spec == Init /\ [][Next]_vars

\* before construction: the arguments and the build; no field is assigned
InitCtor ==
    /\ apiv2 \in BOOLEAN
    /\ wiring = "device"
    /\ pin_conf \in PinConfs
    /\ dev \in DevPaths
    /\ status = "none"
    /\ _chip = FALSE
    /\ _lines = NoLines
    /\ _cs_mode = Uninit
    /\ _curr_cs = Uninit
    /\ _curr_sck = Uninit
    /\ _curr_mosi = Uninit
    /\ nopen = 0
    /\ reqs = <<>>
    /\ pc = "new"
    /\ Quiet

NextCtor == CtorValidate \/ CtorOpen \/ CtorRequest \/ CtorPrime \/ CtorDrive

SpecCtor == InitCtor /\ [][NextCtor]_vars

-----------------------------------------------------------------------------
(* Vocabulary of the properties *)

\* positions inside spi_wr_and_rd
XferPcs == {"xfer_begin", "byte", "setup", "rise", "sample", "fall", "store", "xfer_end"}

\* positions of the byte and bit loops
ClockPcs == {"byte", "setup", "rise", "sample", "fall", "store"}

Ended == pc \in {"returned", "thrown"}

\* the byte spi_wr_and_rd is writing
WriteByte == IF writearr.null THEN 0 ELSE writearr.buf[i + 1]

Sat(b) == BitAnd(b, call.mask) = call.cond

NoPollSat == \A k \in 1..Len(polls) : ~Sat(polls[k])

-----------------------------------------------------------------------------
(* C1 *)

\* C1 (as claimed): once a spi_put call (either overload) that started with CS
\* inactive in AUTO mode has ended, by return or by exception, the CS level the
\* engine drives is again the inactive level it had before the call.
C1_CsRestoredAfterPut ==
    (/\ call.name \in {"spi_put", "spi_put_cmd"}
     /\ call.pre.cs = 1
     /\ call.pre.mode = SPI_CS_AUTO
     /\ Ended)
    => _curr_cs = call.pre.cs

-----------------------------------------------------------------------------
(* C2 *)

\* the bytes spi_put(cmd, tx, rx, len) is to clock: the command, then the payload
C2_Clocked == <<call.cmd>> \o call.tx.buf

\* C2: spi_put(cmd, tx, rx, len) with tx and rx present: at every rising SCK edge
\* MOSI carries the bit of cmd, tx[0], ..., tx[len-1] that is due; CS is asserted
\* once before the first edge and released once after the last, 8*(len+1) edges
\* in one spi_wr_and_rd call; on return rx[k] is the byte the device shifted out
\* in byte slot k+2 (on a loopback, the byte written in that slot).
C2_CmdPayloadOneWindow ==
    (call.name = "spi_put_cmd" /\ ~call.tx.null /\ call.rx)
    => /\ pc = "sample" =>
            /\ i + 1 <= call.len + 1
            /\ _curr_mosi = Bit(C2_Clocked[i + 1], (ByteBits - 1) - j)
       /\ pc \in ClockPcs => (cnt.csa = 1 /\ cnt.csd = 0 /\ _curr_cs = 0)
       /\ cnt.rise + cnt.fall > 0 => cnt.csa = 1
       /\ cnt.csd > 0 =>
            /\ pc \in {"putcmd_ret", "returned"}
            /\ cnt.rise = ByteBits * (call.len + 1)
            /\ cnt.fall = ByteBits * (call.len + 1)
       /\ pc = "returned" =>
            /\ cnt.csa = 1 /\ cnt.csd = 1 /\ _curr_cs = 1
            /\ nxfer = 1
            /\ ns = ByteBits * (call.len + 1)
            /\ ret = [thrown |-> FALSE, val |-> 0]
            /\ Len(rx.buf) = call.len
            /\ (wiring = "device" /\ fault.kind # "rd") =>
                  \A k \in 1..call.len : rx.buf[k] = shifted[k + 1]
            /\ wiring = "loop" => \A k \in 1..call.len : rx.buf[k] = call.tx.buf[k]

\* C2 witness: the command and two payload bytes are clocked and the two bytes
\* the device shifted out in slots 2 and 3 are back in rx
C2_Witness ==
    /\ pc = "returned"
    /\ call.name = "spi_put_cmd"
    /\ call.len = 2
    /\ call.tx = Ptr(<<1, 128>>)
    /\ call.rx
    /\ wiring = "device"
    /\ fault = NoFault
    /\ shifted = <<0, 165, 0>>
    /\ rx = Ptr(<<165, 0>>)

-----------------------------------------------------------------------------
(* C3 *)

\* C3 (as claimed): when spi_wait has returned and the k-th byte it polled is the
\* first to satisfy (byte & mask) == cond, with 1 <= k <= timeout, it made
\* exactly k one-byte reads after the command byte and returned 0.
C3_WaitSuccessWithinTimeout ==
    (call.name = "spi_wait" /\ pc = "returned")
    => \A k \in 1..Len(polls) :
          (/\ Sat(polls[k])
           /\ \A m \in 1..(k - 1) : ~Sat(polls[m])
           /\ k <= call.timeout)
          => (Len(polls) = k /\ nxfer = k + 1 /\ ret.val = 0)

-----------------------------------------------------------------------------
(* C4 *)

\* C4 (as claimed): for every timeout, 0 included, when no polled byte satisfies
\* the condition spi_wait never makes more than timeout reads, and returns
\* -ETIME after exactly timeout of them.
C4_TimeoutAfterExactlyTimeoutReads ==
    (call.name = "spi_wait" /\ NoPollSat)
    => /\ Len(polls) <= call.timeout
       /\ pc = "returned" => (Len(polls) = call.timeout /\ ret.val = 0 - ETIME)

\* C4 (amended): for every timeout >= 1, when no polled byte satisfies the
\* condition spi_wait never makes more than timeout reads, stops polling at the
\* timeout-th, and returns -ETIME, never success, after exactly timeout reads.
C4_TimeoutAtLeastOne ==
    (call.name = "spi_wait" /\ call.timeout >= 1 /\ NoPollSat)
    => /\ Len(polls) <= call.timeout
       /\ count = Len(polls)
       /\ Len(polls) = call.timeout => pc \in {"wait_end", "returned"}
       /\ pc = "wait_end" => Len(polls) = call.timeout
       /\ pc = "returned" =>
            /\ Len(polls) = call.timeout
            /\ nxfer = call.timeout + 1
            /\ ret = [thrown |-> FALSE, val |-> 0 - ETIME]

\* C4 witness: two polls, neither satisfying, and the timeout status
C4_Witness ==
    /\ pc = "returned"
    /\ call.name = "spi_wait"
    /\ call.timeout = 2
    /\ Len(polls) = 2
    /\ NoPollSat
    /\ ret.val = 0 - ETIME

-----------------------------------------------------------------------------
(* C5 *)

\* C5: spi_wait asserts CS once before the command byte; from there to the end
\* of the polling the mode is MANUAL and no CS write is made; when it returns,
\* with success or with the timeout status, CS has been released exactly once
\* and the mode is AUTO.
C5_WaitOneCsWindow ==
    call.name = "spi_wait"
    => /\ pc \in XferPcs \cup {"wait_do", "wait_check", "wait_end"} =>
            /\ _cs_mode = SPI_CS_MANUAL
            /\ cnt.csa = 1 /\ cnt.csd = 0
            /\ _curr_cs = 0
       /\ cnt.rise > 0 => cnt.csa = 1
       /\ pc = "returned" =>
            /\ ret.val \in {0, 0 - ETIME}
            /\ cnt.csa = 1 /\ cnt.csd = 1
            /\ _curr_cs = 1
            /\ _cs_mode = SPI_CS_AUTO
            /\ wr = <<[line |-> "cs", val |-> 1, ok |-> wr[1].ok]>>

\* C5 witness: a wait that polled twice and succeeded
C5_Witness ==
    /\ pc = "returned"
    /\ call.name = "spi_wait"
    /\ Len(polls) = 2
    /\ ret.val = 0
    /\ cnt.csa = 1 /\ cnt.csd = 1

-----------------------------------------------------------------------------
(* C6 *)

\* C6: on a loopback (MISO reads the MOSI level, every write takes effect) a raw
\* spi_put of N bytes with a read buffer returns the bytes written, for every
\* N in 0..MaxLen and every content.
C6_LoopbackRoundTrip ==
    (/\ wiring = "loop"
     /\ call.name = "spi_put"
     /\ ~call.tx.null
     /\ call.rx
     /\ pc = "returned")
    => /\ cnt.fail = 0
       /\ Len(rx.buf) = call.len
       /\ rx.buf = call.tx.buf

\* C6 witness: two bytes went round
C6_Witness ==
    /\ pc = "returned"
    /\ wiring = "loop"
    /\ call.name = "spi_put"
    /\ call.len = 2
    /\ rx = Ptr(<<128, 1>>)

-----------------------------------------------------------------------------
(* C7 *)

\* C7: in every transfer, at the rising SCK edge of bit slot j MOSI carries bit
\* 7-j of the byte being written, and once a byte is stored its bit 7-j is the
\* bit sampled in slot j.
C7_MsbFirst ==
    /\ pc = "sample" =>
         /\ j \in 0..(ByteBits - 1)
         /\ _curr_sck = 1
         /\ _curr_mosi = Bit(WriteByte, (ByteBits - 1) - j)
         /\ WriteByte = 128 => (_curr_mosi = 1 <=> j = 0)
    /\ (pc = "byte" /\ i >= 1 /\ ~readarr.null) =>
         /\ Len(sbits) = ByteBits
         /\ \A k \in 0..(ByteBits - 1) :
               sbits[k + 1] \in {0, 1} =>
                  Bit(readarr.buf[i], (ByteBits - 1) - k) = sbits[k + 1]

\* C7 witness: 0b10000000 is being written as the second byte, first slot, MOSI
\* high, after the byte the device shifted out as 1,0,1,0,0,1,0,1 was stored
C7_Witness ==
    /\ pc = "sample"
    /\ WriteByte = 128
    /\ j = 0
    /\ _curr_mosi = 1
    /\ i = 1
    /\ ~readarr.null
    /\ shifted = <<165, 0>>
    /\ readarr.buf[1] = 165

-----------------------------------------------------------------------------
(* C8 *)

PinList == <<pin_conf.cs_pin, pin_conf.sck_pin, pin_conf.mosi_pin, pin_conf.miso_pin>>

SomeOutOfRange == \E k \in 1..4 : PinList[k] < 0 \/ PinList[k] > 999

SomeDuplicate == \E k, m \in 1..4 : k # m /\ PinList[k] = PinList[m]

\* no chip was opened, no line requested, no line written
NoHardwareAccess ==
    /\ nopen = 0
    /\ reqs = <<>>
    /\ ~_chip
    /\ _lines = NoLines
    /\ cnt = NoCnt
    /\ wr = <<>>

\* C8: with a duplicate or out-of-range pin the constructor throws a
\* configuration error before any hardware access: it never gets past the
\* validation; with a well-formed device path the error is the out-of-range
\* one or the duplicate one, each when only that defect is present.
C8_ValidationBeforeHardware ==
    (SomeOutOfRange \/ SomeDuplicate)
    => /\ pc \in {"new", "failed"}
       /\ NoHardwareAccess
       /\ pc = "failed" =>
            /\ ret.thrown
            /\ status \in {"invalid_chip", "out_of_range", "duplicate"}
            /\ status = "invalid_chip" <=> ~ValidChipDev(ChipDev(dev))
            /\ (status = "out_of_range") => SomeOutOfRange
            /\ (status = "duplicate") => SomeDuplicate

\* C8 witness: a duplicate pin refused, and nothing touched
C8_Witness ==
    /\ pc = "failed"
    /\ status = "duplicate"
    /\ pin_conf = [cs_pin |-> 0, sck_pin |-> 1, mosi_pin |-> 1, miso_pin |-> 2]
    /\ NoHardwareAccess

-----------------------------------------------------------------------------
(* C9 *)

ValidArgs == ~SomeOutOfRange /\ ~SomeDuplicate /\ ValidChipDev(ChipDev(dev))

AllGranted == _chip /\ \A k \in 1..Len(reqs) : reqs[k].ok

\* C9: with four distinct in-range pins, a valid device path and a controller
\* that grants the chip and every line, the constructor does not throw, and when
\* it returns the mode is AUTO and CS, SCK and MOSI have each been written
\* exactly once, with their idle values 1, 0 and 0.
C9_ConstructionDrivesIdleOnce ==
    ValidArgs
    => /\ (pc = "failed") => ~AllGranted
       /\ (pc = "idle") =>
            /\ status = "ok"
            /\ ~ret.thrown
            /\ _cs_mode = SPI_CS_AUTO
            /\ Len(reqs) = 4
            /\ nopen = 1
            /\ cnt = [rise |-> 0, fall |-> 1, csa |-> 0, csd |-> 1, mosi |-> 1,
                      fail |-> cnt.fail]
            /\ {[line |-> wr[k].line, val |-> wr[k].val] : k \in 1..Len(wr)}
                 = {[line |-> "cs", val |-> 1], [line |-> "sck", val |-> 0],
                    [line |-> "mosi", val |-> 0]}
            /\ Len(wr) = 3
            /\ <<_curr_cs, _curr_sck, _curr_mosi>> = <<1, 0, 0>>

\* C9 witness: a construction that went through, every request granted
C9_Witness ==
    /\ pc = "idle"
    /\ status = "ok"
    /\ AllGranted
    /\ pin_conf = [cs_pin |-> 0, sck_pin |-> 1, mosi_pin |-> 2, miso_pin |-> 999]
    /\ dev = <<>>
    /\ cnt.fail = 0
    /\ Len(wr) = 3

-----------------------------------------------------------------------------
(* C10 *)

\* C10 (as claimed): when a read of MISO has reported the error sentinel, the
\* transfer has stopped there with an exception on its way to the caller; the
\* sentinel is never shifted into the byte and the transfer never goes on.
C10_ReadErrorAborts ==
    (\E k \in 1..Len(sbits) : sbits[k] = GPIOD_LINE_VALUE_ERROR)
    => (pc = "thrown" /\ ret.thrown)

-----------------------------------------------------------------------------
(* C11 *)

\* C11 (as claimed): in spi_put(cmd, NULL, rx, len) the first byte clocked is cmd
\* and every following byte is 0x00: at each rising SCK edge MOSI carries the
\* bit of cmd in the first byte slot and is low in all later slots.
C11_AbsentPayloadIsZeros ==
    (call.name = "spi_put_cmd" /\ call.tx.null /\ pc = "sample")
    => _curr_mosi = (IF i = 0 THEN Bit(call.cmd, (ByteBits - 1) - j) ELSE 0)

-----------------------------------------------------------------------------
(* C12 *)

\* positions where the running spi_wr_and_rd is past its entry, and those where
\* it has just returned to its caller
InsidePcs == {"byte", "xfer_end"}

BackPcs == {"put_ret", "putcmd_ret", "wait_do", "wait_check", "wtr_mid", "wtr_end"}

\* the calls made since the entry of the running spi_wr_and_rd
Since(f) == cnt[f] - xin.cnt[f]

\* C12: a spi_wr_and_rd call with writecnt = 0 writes SCK and MOSI not at all,
\* takes no MISO sample and leaves the read buffer as it was; in AUTO mode its
\* only line activity is one CS assert and then one CS release, in MANUAL mode
\* it has none; when it returns the cache is what it was at the call.
C12_ZeroLengthTransfer ==
    (writecnt = 0 /\ pc \in InsidePcs \cup BackPcs)
    => /\ Since("rise") = 0 /\ Since("fall") = 0 /\ Since("mosi") = 0
       /\ ns = xin.ns
       /\ readarr = xin.readarr
       /\ i = 0
       /\ _cs_mode = SPI_CS_MANUAL => (Since("csa") = 0 /\ Since("csd") = 0)
       /\ (_cs_mode = SPI_CS_AUTO /\ pc \in InsidePcs) =>
            (Since("csa") = 1 /\ Since("csd") = 0 /\ _curr_cs = 0)
       /\ (_cs_mode = SPI_CS_AUTO /\ pc \in BackPcs) =>
            /\ Since("csa") = 1 /\ Since("csd") = 1
            /\ \A k \in 1..Len(wr) : wr[k].line = "cs" /\ wr[k].val = 1
       /\ pc \in BackPcs =>
            <<_curr_cs, _curr_sck, _curr_mosi>> = <<xin.cs, xin.sck, xin.mosi>>

\* C12 witness: a zero-length transfer has returned in MANUAL mode, after a
\* write phase that did clock
C12_Witness ==
    /\ pc = "wtr_end"
    /\ writecnt = 0
    /\ _cs_mode = SPI_CS_MANUAL
    /\ call.len = 1
    /\ xin.cnt.rise = ByteBits
    /\ cnt = xin.cnt

-----------------------------------------------------------------------------
(* C13 *)

\* C13 (as claimed): when gpiod_chip_open fails the constructor has failed, and
\* a constructor that has completed was refused no line request and holds a
\* handle for each of the four lines.
C13_AcquisitionFailuresFatal ==
    /\ (nopen > 0 /\ ~_chip) => pc = "failed"
    /\ pc = "idle" =>
         /\ \A k \in 1..Len(reqs) : reqs[k].ok
         /\ \A l \in LineNames : _lines[l]

-----------------------------------------------------------------------------
(* C14 *)

\* C14 (as claimed): in every spi_wr_then_rd, whatever fails in the two inner
\* transfers, CS is asserted once before the write phase and never again, the
\* read phase is the second transfer, and when the operation has ended, by
\* return or by exception, CS has been released exactly once and the mode is AUTO.
C14_WrThenRdCsInvariant ==
    call.name = "spi_wr_then_rd"
    => /\ cnt.csa = 1
       /\ cnt.csd <= 1
       /\ cnt.rise > 0 => _curr_cs = 0
       /\ stage = "wtr_rd" => nxfer = 2
       /\ Ended =>
            /\ cnt.csd = 1
            /\ _curr_cs = 1
            /\ _cs_mode = SPI_CS_AUTO

-----------------------------------------------------------------------------
(* C15 *)

\* position of a line in <<cs, sck, mosi>>
ArgOf(line) == IF line = "cs" THEN 1 ELSE IF line = "sck" THEN 2 ELSE 3

\* C15: in every update_pins call a line is written if and only if the value
\* requested for it differs from the cache before the call, at most once and
\* with the requested value; a call that requests the cached values writes
\* nothing; no line is written outside update_pins.
C15_WriteSuppression ==
    /\ upd.called =>
         /\ \A l \in OutLines :
               (\E k \in 1..Len(wr) : wr[k].line = l) <=> upd.req[ArgOf(l)] # upd.old[ArgOf(l)]
         /\ \A k \in 1..Len(wr) :
               /\ wr[k].line \in OutLines
               /\ wr[k].val = upd.req[ArgOf(wr[k].line)]
               /\ \A m \in 1..Len(wr) : wr[m].line = wr[k].line => m = k
         /\ upd.req = upd.old => wr = <<>>
    /\ ~upd.called => wr = <<>>

\* C15 witness: the setup step of a bit slot found MOSI and SCK as it wants
\* them, and wrote nothing
C15_Witness ==
    /\ pc = "rise"
    /\ upd.called
    /\ upd.req = upd.old
    /\ wr = <<>>
    /\ j = 1

-----------------------------------------------------------------------------
(* C16 *)

-----------------------------------------------------------------------------
(* C17 *)

\* C17: in every bit slot of every transfer: the setup call sets MOSI to the bit
\* with SCK low before and after it; then SCK is written high and MOSI is not
\* written; then MISO is sampled, SCK still high; then SCK is written low and
\* MOSI is not written.  So MOSI is written only in calls that find and leave
\* SCK low, and each sample lies between the rising and the falling edge of
\* its slot.
C17_Mode0EdgeOrdering ==
    /\ pc = "rise" =>
         /\ upd.called
         /\ upd.old[2] = 0 /\ upd.req[2] = 0 /\ _curr_sck = 0
         /\ upd.req[3] = Bit(WriteByte, (ByteBits - 1) - j)
         /\ _curr_mosi = upd.req[3]
         /\ Len(sbits) = j
    /\ pc = "sample" =>
         /\ upd.called
         /\ Len(wr) = 1 /\ wr[1].line = "sck" /\ wr[1].val = 1
         /\ upd.req[3] = upd.old[3] /\ _curr_mosi = upd.old[3]
         /\ _curr_sck = 1
         /\ Len(sbits) = j
    /\ pc \in {"fall", "thrown"} =>
         /\ ~upd.called
         /\ _curr_sck = 1
         /\ Len(sbits) = j + 1
    /\ (pc \in {"setup", "store"} /\ upd.called) =>
         /\ Len(wr) = 1 /\ wr[1].line = "sck" /\ wr[1].val = 0
         /\ upd.req[3] = upd.old[3] /\ _curr_mosi = upd.old[3]
         /\ _curr_sck = 0
         /\ Len(sbits) = j
    /\ \A k \in 1..Len(wr) :
         wr[k].line = "mosi" => (upd.old[2] = 0 /\ upd.req[2] = 0)
    /\ cnt.rise = cnt.fall + (IF pc \in {"sample", "fall", "thrown"} THEN 1 ELSE 0)
    /\ ns = cnt.fall + (IF pc \in {"fall", "thrown"} THEN 1 ELSE 0)

\* C17 witness: third slot of a byte, the sample just taken with SCK high, after
\* a setup call that changed MOSI
C17_Witness ==
    /\ pc = "fall"
    /\ j = 2
    /\ _curr_sck = 1
    /\ sbits = <<1, 0, 1>>
    /\ WriteByte = 1
    /\ cnt.rise = 3 /\ cnt.fall = 2

-----------------------------------------------------------------------------
(* C18 *)

\* C18 (as claimed): when the constructor has completed, before any transfer,
\* the cache holds CS = 1, SCK = 1, MOSI = 1.
C18_InitialCacheAllHigh ==
    (pc = "idle" /\ status = "ok" /\ nxfer = 0)
    => <<_curr_cs, _curr_sck, _curr_mosi>> = <<1, 1, 1>>

\* C18 (amended): when the constructor has completed, before any transfer, the
\* cache holds CS = 1, SCK = 0, MOSI = 0, the values of its update_pins(1, 0, 0);
\* the values 0, 1, 1 it first puts in the cache are gone.
C18_InitialCacheIdle ==
    (pc = "idle" /\ status = "ok" /\ nxfer = 0)
    => /\ <<_curr_cs, _curr_sck, _curr_mosi>> = <<1, 0, 0>>
       /\ upd.old = <<0, 1, 1>>
       /\ upd.req = <<1, 0, 0>>

\* C18 witness: a completed construction of the GPIOD_APIV2 build
C18_Witness ==
    /\ pc = "idle"
    /\ status = "ok"
    /\ apiv2
    /\ nxfer = 0
    /\ _curr_cs = 1
    /\ _curr_sck = 0
    /\ _curr_mosi = 0
    /\ dev = DefaultChip

-----------------------------------------------------------------------------
(* C19 *)

\* C19: in every transfer of N = writecnt bytes without a MISO read error, the
\* setup call of a slot never writes SCK; after j slots of byte i SCK has been
\* written high and written low 8*i + j times and MISO sampled as often; when
\* the transfer has returned the counts are 8*N each and SCK is low.
C19_ExactClockPulses ==
    fault.kind # "rd"
    => /\ pc = "rise" => \A k \in 1..Len(wr) : wr[k].line # "sck"
       /\ pc \in {"setup", "rise"} =>
            /\ Since("rise") = ByteBits * i + j
            /\ Since("fall") = ByteBits * i + j
            /\ ns - xin.ns = ByteBits * i + j
       /\ pc = "sample" =>
            /\ Since("rise") = ByteBits * i + j + 1
            /\ Since("fall") = ByteBits * i + j
            /\ ns - xin.ns = ByteBits * i + j
       /\ pc = "fall" =>
            /\ Since("rise") = ByteBits * i + j + 1
            /\ Since("fall") = ByteBits * i + j
            /\ ns - xin.ns = ByteBits * i + j + 1
       /\ pc \in BackPcs =>
            /\ Since("rise") = ByteBits * writecnt
            /\ Since("fall") = ByteBits * writecnt
            /\ ns - xin.ns = ByteBits * writecnt
            /\ _curr_sck = 0
       /\ pc \in {"idle", "returned"} => _curr_sck = 0

\* C19 witness: a transfer of two bytes has returned, the second transfer of
\* its operation: sixteen pulses and samples more than it found
C19_Witness ==
    /\ pc = "wtr_end"
    /\ writecnt = 2
    /\ xin.cnt.rise = ByteBits
    /\ cnt.rise = 3 * ByteBits
    /\ cnt.fall = 3 * ByteBits
    /\ ns = 3 * ByteBits
    /\ _curr_sck = 0
    /\ fault = NoFault

-----------------------------------------------------------------------------
(* C20 *)

\* C20: in every reachable state of an operation in which no line write fails:
\* SCK is written only by calls that find and leave CS asserted; at the rising
\* edge, at the sample and until the falling edge CS is asserted; while CS is
\* inactive SCK is low and no transfer is clocking.
C20_ClockOnlyInsideCsWindow ==
    fault.kind # "wr"
    => /\ \A k \in 1..Len(wr) :
            wr[k].line = "sck" => (upd.old[1] = 0 /\ upd.req[1] = 0 /\ _curr_cs = 0)
       /\ pc \in {"setup", "rise", "sample", "fall", "store", "thrown"} => _curr_cs = 0
       /\ _curr_cs = 1 =>
            /\ _curr_sck = 0
            /\ pc \in {"idle", "xfer_begin", "returned"} \cup BackPcs
       /\ cnt.rise + cnt.fall + ns > 0 => cnt.csa >= 1
       /\ cnt.csd > 0 => pc \in {"returned"} \cup BackPcs

\* C20 witness: spi_wait samples a polled byte, CS asserted since before the
\* command byte
C20_Witness ==
    /\ pc = "sample"
    /\ call.name = "spi_wait"
    /\ stage = "poll"
    /\ Len(polls) = 1
    /\ _curr_cs = 0
    /\ _curr_sck = 1
    /\ cnt.csa = 1 /\ cnt.csd = 0
    /\ fault = NoFault

====
